---- MODULE Spec2Model ----
(***************************************************************************)
(* Liner cementing job calculator: the /calculate boundary                 *)
(* (backend/app/main.py) and the calculation engine                        *)
(* (backend/app/engine.py).                                                *)
(*                                                                         *)
(* Python floats are modelled as exact numbers of the form (n/d) * pi^k,   *)
(* kept in lowest terms, so that area_ft2 and the volume formula are       *)
(* computed as the code computes them, without rounding.  Python dicts are *)
(* records whose DOMAIN is the set of keys that are present.               *)
(***************************************************************************)
EXTENDS Integers, FiniteSets, Sequences, TLC

VARIABLES pc, call, frame, resp, calls

vars == <<pc, call, frame, resp, calls>>

(***************************************************************************)
(* Numbers                                                                 *)
(***************************************************************************)
Abs(i) == IF i < 0 THEN -i ELSE i

RECURSIVE GCD(_, _)
GCD(a, b) == IF b = 0 THEN a ELSE GCD(b, a % b)

\* (n/d) * pi^k in lowest terms, d > 0; zero has one representation.
Norm(n, d, k) ==
    IF n = 0 THEN [n |-> 0, d |-> 1, k |-> 0]
    ELSE LET g == GCD(Abs(n), Abs(d))
             s == IF d < 0 THEN -1 ELSE 1
         IN  [n |-> (s * n) \div g, d |-> (s * d) \div g, k |-> k]

Num(n, d) == Norm(n, d, 0)
N(i) == Num(i, 1)
Zero == N(0)

Mul(a, b) ==
    LET g1 == GCD(Abs(a.n), b.d)
        g2 == GCD(Abs(b.n), a.d)
    IN  Norm((a.n \div g1) * (b.n \div g2), (a.d \div g2) * (b.d \div g1), a.k + b.k)

\* a / b for b # 0 (the code divides by the literals 12 and 4 only)
Div(a, b) == Mul(a, Norm(b.d, b.n, 0 - b.k))

\* a + b and a - b for operands with the same power of pi (or zero)
Add(a, b) ==
    LET g == GCD(a.d, b.d)
    IN  Norm(a.n * (b.d \div g) + b.n * (a.d \div g), (a.d \div g) * b.d,
             IF a.n = 0 THEN b.k ELSE a.k)

Sub(a, b) == Add(a, [b EXCEPT !.n = 0 - b.n])

Gt(a, b) == Sub(a, b).n > 0

\* math.pi
PI == [n |-> 1, d |-> 1, k |-> 1]

\* max(x, y) yielding its second argument whatever the order
Max_Second(x, y) == y

\* Python's max(x, y): y only when y > x, else the first argument
Max(x, y) == IF Gt(y, x) THEN y ELSE x

(***************************************************************************)
(* Python values: dicts, None, exceptions                                  *)
(***************************************************************************)
None == [none |-> TRUE]
EmptyDict == [k \in {} |-> None]

Has(d, k) == k \in DOMAIN d

\* d.get(k, default)
Get(d, k, default) == IF Has(d, k) THEN d[k] ELSE default

Drop(d, S) == [k \in (DOMAIN d) \ S |-> d[k]]

\* f updated with the bindings of g
Extend(f, g) == [k \in (DOMAIN f) \cup (DOMAIN g) |-> IF k \in DOMAIN g THEN g[k] ELSE f[k]]

IsNumber(v) == DOMAIN v = {"n", "d", "k"}

Ok(v) == [ok |-> TRUE, val |-> v]
Raise(t, m) == [ok |-> FALSE, exc |-> [type |-> t, msg |-> m]]

\* float(v) for the values a payload can hold here: a number or None
Float(v) ==
    IF IsNumber(v) THEN Ok(v)
    ELSE Raise("TypeError", "float() argument must be a string or a real number, not 'NoneType'")

(***************************************************************************)
(* engine.py: PipeSection                                                  *)
(***************************************************************************)
PipeRequired == {"od", "id", "wt", "length", "md", "tvd"}
PipeFields == PipeRequired \cup {"grade"}

\* PipeSection(**kw): the dataclass constructor
PipeSection(kw) ==
    IF kw = None
    THEN Raise("TypeError", "argument after ** must be a mapping, not NoneType")
    ELSE IF ~(PipeRequired \subseteq DOMAIN kw)
    THEN Raise("TypeError", "__init__() missing required positional argument")
    ELSE IF ~(DOMAIN kw \subseteq PipeFields)
    THEN Raise("TypeError", "__init__() got an unexpected keyword argument")
    ELSE Ok([od |-> kw.od, id |-> kw.id, wt |-> kw.wt, length |-> kw.length,
             md |-> kw.md, tvd |-> kw.tvd, grade |-> Get(kw, "grade", "")])

\* the default of payload.get("dp2", ...)
ZeroSection ==
    [od |-> N(0), id |-> N(0), wt |-> N(0), length |-> N(0), md |-> N(0),
     tvd |-> N(0), grade |-> ""]

\* payload[key] converted to a PipeSection
RequiredSection(payload, key) ==
    IF Has(payload, key) THEN PipeSection(payload[key])
    ELSE Raise("KeyError", key)

\* payload.get(key, {}).get(sub, default)
NestedGet(payload, key, sub, default) ==
    LET d == Get(payload, key, EmptyDict)
    IN  IF d = None
        THEN Raise("AttributeError", "'NoneType' object has no attribute 'get'")
        ELSE Ok(Get(d, sub, default))

\* float(payload.get(key, {}).get(sub, default))
NestedFloat(payload, key, sub, default) ==
    LET g == NestedGet(payload, key, sub, default)
    IN  IF g.ok THEN Float(g.val) ELSE g

BBL_PER_CUFT == Num(1781076, 10000000)

\* area_ft2 without the inch-to-foot conversion
area_ft2_InchesAsFeet(d_in) == Div(Mul(PI, Mul(d_in, d_in)), N(4))

\* def area_ft2(d_in): return math.pi * (d_in/12)**2 / 4
area_ft2(d_in) ==
    LET q == Div(d_in, N(12))
    IN  Div(Mul(PI, Mul(q, q)), N(4))

(***************************************************************************)
(* engine.py: Engine.calculate, statement by statement.  Each operator     *)
(* takes the locals of one invocation and yields the locals after the      *)
(* statements, or the exception they raise.                                *)
(***************************************************************************)
\* lines 20-23: casing, liner, dp1, dp2
Lines20to23(f) ==
    LET casing == RequiredSection(f.payload, "casing")
        liner == RequiredSection(f.payload, "liner")
        dp1 == RequiredSection(f.payload, "dp1")
        dp2 == PipeSection(Get(f.payload, "dp2", ZeroSection))
    IN  IF ~casing.ok THEN casing
        ELSE IF ~liner.ok THEN liner
        ELSE IF ~dp1.ok THEN dp1
        ELSE IF ~dp2.ok THEN dp2
        ELSE Ok(Extend(f, [casing |-> casing.val, liner |-> liner.val,
                           dp1 |-> dp1.val, dp2 |-> dp2.val]))

\* lines 24-25 with 8 for the open-hole default
Lines24to25_OpenHoleDefault8(f) ==
    LET mud_ppg == NestedFloat(f.payload, "mud", "ppg", N(13))
        open_hole_id == NestedFloat(f.payload, "holeOverlap", "openHoleId", N(8))
    IN  IF ~mud_ppg.ok THEN mud_ppg
        ELSE IF ~open_hole_id.ok THEN open_hole_id
        ELSE Ok(Extend(f, [mud_ppg |-> mud_ppg.val, open_hole_id |-> open_hole_id.val]))

\* lines 24-25: mud_ppg, open_hole_id
Lines24to25(f) ==
    LET mud_ppg == NestedFloat(f.payload, "mud", "ppg", N(13))
        open_hole_id == NestedFloat(f.payload, "holeOverlap", "openHoleId", Num(17, 2))
    IN  IF ~mud_ppg.ok THEN mud_ppg
        ELSE IF ~open_hole_id.ok THEN open_hole_id
        ELSE Ok(Extend(f, [mud_ppg |-> mud_ppg.val, open_hole_id |-> open_hole_id.val]))

\* line 30 without the clamp
Line30_NoClamp(f) ==
    Ok(Extend(f, [annulus_area |-> Sub(area_ft2(f.open_hole_id), area_ft2(f.liner.od))]))

\* line 30 reading the liner's inner diameter
Line30_LinerId(f) ==
    Ok(Extend(f, [annulus_area |->
        Max(Zero, Sub(area_ft2(f.open_hole_id), area_ft2(f.liner.id)))]))

\* line 30: annulus_area = max(0.0, area_ft2(open_hole_id) - area_ft2(liner.od))
Line30(f) ==
    Ok(Extend(f, [annulus_area |->
        Max(Zero, Sub(area_ft2(f.open_hole_id), area_ft2(f.liner.od)))]))

\* lines 31-35: liner_overlap_ft, shoe_track_ft, cement_interval, cement_volume_bbl
Lines31to35(f) ==
    LET liner_overlap_ft ==
            NestedFloat(f.payload, "holeOverlap", "linerOverlap", N(300))
        shoe_track_ft ==
            NestedFloat(f.payload, "holeOverlap", "shoeTrackLength", N(200))
        cement_interval == Add(liner_overlap_ft.val, shoe_track_ft.val)
    IN  IF ~liner_overlap_ft.ok THEN liner_overlap_ft
        ELSE IF ~shoe_track_ft.ok THEN shoe_track_ft
        ELSE Ok(Extend(f, [liner_overlap_ft |-> liner_overlap_ft.val,
                           shoe_track_ft |-> shoe_track_ft.val,
                           cement_interval |-> cement_interval,
                           cement_volume_bbl |->
                               Mul(Mul(f.annulus_area, cement_interval), BBL_PER_CUFT)]))

\* lines 37-41: the returned dict
Lines37to41(f) ==
    Ok(Extend(f, [ret |-> [cementVolume |-> f.cement_volume_bbl,
                           mudPPG |-> f.mud_ppg,
                           annulusAreaFt2 |-> f.annulus_area]]))

\* line 19: the locals on entry; find_tvd_calls counts the invocations of find_tvd
EnterCalculate(payload, find_tvd) ==
    [payload |-> payload, find_tvd |-> find_tvd, find_tvd_calls |-> 0]

(***************************************************************************)
(* main.py: the request models                                             *)
(***************************************************************************)
\* PipeModel (lines 8-15): six required floats, grade defaults to ""
ValidPipeModel(v) ==
    /\ v # None
    /\ PipeRequired \subseteq DOMAIN v
    /\ \A k \in PipeRequired : IsNumber(v[k])

PipeModel(v) ==
    [od |-> v.od, id |-> v.id, wt |-> v.wt, length |-> v.length, md |-> v.md,
     tvd |-> v.tvd, grade |-> Get(v, "grade", "")]

\* HoleOverlapModel (lines 17-20)
ValidHoleOverlapModel(v) ==
    /\ v # None
    /\ \A k \in (DOMAIN v) \cap {"openHoleId", "linerOverlap", "shoeTrackLength"} :
          IsNumber(v[k])

HoleOverlapModel(v) ==
    [openHoleId |-> Get(v, "openHoleId", Num(17, 2)),
     linerOverlap |-> Get(v, "linerOverlap", N(300)),
     shoeTrackLength |-> Get(v, "shoeTrackLength", N(200))]

\* MudModel (lines 22-23)
ValidMudModel(v) ==
    /\ v # None
    /\ Has(v, "ppg") => IsNumber(v.ppg)

MudModel(v) == [ppg |-> Get(v, "ppg", N(13))]

ValidationError == Raise("ValidationError", "validation error")

\* a field declared `name: PipeModel`
PipeField(body, k) ==
    IF Has(body, k) /\ ValidPipeModel(body[k]) THEN Ok(PipeModel(body[k]))
    ELSE ValidationError

\* a field declared `name: Optional[PipeModel] = None`
OptionalPipeField(body, k) ==
    IF ~Has(body, k) \/ body[k] = None THEN Ok(None)
    ELSE IF ValidPipeModel(body[k]) THEN Ok(PipeModel(body[k]))
    ELSE ValidationError

\* mud: MudModel
MudField(body) ==
    IF Has(body, "mud") /\ ValidMudModel(body.mud) THEN Ok(MudModel(body.mud))
    ELSE ValidationError

\* holeOverlap: HoleOverlapModel
HoleOverlapField(body) ==
    IF Has(body, "holeOverlap") /\ ValidHoleOverlapModel(body.holeOverlap)
    THEN Ok(HoleOverlapModel(body.holeOverlap))
    ELSE ValidationError

\* CalcRequest with dp1 declared Optional[PipeModel] = None
CalcRequest_Dp1Optional(body) ==
    LET casing == PipeField(body, "casing")
        liner == PipeField(body, "liner")
        dp1 == OptionalPipeField(body, "dp1")
        dp2 == OptionalPipeField(body, "dp2")
        mud == MudField(body)
        holeOverlap == HoleOverlapField(body)
    IN  IF casing.ok /\ liner.ok /\ dp1.ok /\ dp2.ok /\ mud.ok /\ holeOverlap.ok
        THEN Ok([casing |-> casing.val, liner |-> liner.val, dp1 |-> dp1.val,
                 dp2 |-> dp2.val, mud |-> mud.val, holeOverlap |-> holeOverlap.val])
        ELSE ValidationError

\* CalcRequest (lines 25-31): the parsed request, or pydantic's validation error
CalcRequest(body) ==
    LET casing == PipeField(body, "casing")
        liner == PipeField(body, "liner")
        dp1 == PipeField(body, "dp1")
        dp2 == OptionalPipeField(body, "dp2")
        mud == MudField(body)
        holeOverlap == HoleOverlapField(body)
    IN  IF casing.ok /\ liner.ok /\ dp1.ok /\ dp2.ok /\ mud.ok /\ holeOverlap.ok
        THEN Ok([casing |-> casing.val, liner |-> liner.val, dp1 |-> dp1.val,
                 dp2 |-> dp2.val, mud |-> mud.val, holeOverlap |-> holeOverlap.val])
        ELSE ValidationError

\* req.model_dump(by_alias=True): every declared field, nested models as dicts
model_dump(req) ==
    [k \in {"casing", "liner", "dp1", "dp2", "mud", "holeOverlap"} |->
        IF req[k] = None THEN None ELSE [j \in DOMAIN req[k] |-> req[k][j]]]

\* CalcResponse (lines 33-36), the response_model of /calculate
CalcResponse(result) ==
    [cementVolume |-> result.cementVolume, mudPPG |-> result.mudPPG,
     annulusAreaFt2 |-> result.annulusAreaFt2]

\* str(e)
Str(e) == IF e.type = "KeyError" THEN "'" \o e.msg \o "'" ELSE e.msg

\* except KeyError in place of except Exception
Catches_KeyErrorOnly(e) == e.type = "KeyError"

\* except Exception (line 43): the classes the clause catches
Catches(e) == e.type \in {"KeyError", "TypeError", "AttributeError", "ValueError"}

(***************************************************************************)
(* Inputs: the JSON bodies posted to /calculate and the payloads handed to *)
(* Engine.calculate by a direct caller                                     *)
(***************************************************************************)
Pipe(od, id, wt, length, md, tvd, grade) ==
    [od |-> od, id |-> id, wt |-> wt, length |-> length, md |-> md, tvd |-> tvd,
     grade |-> grade]

CasingA == Pipe(Num(77, 8), Num(17, 2), Num(1, 2), N(5000), N(5000), N(4800), "P110")
CasingB == Pipe(Num(107, 8), N(12), Num(3, 4), N(3000), N(3000), N(2900), "K55")
Liner7 == Pipe(N(7), N(6), Num(1, 2), N(1500), N(6000), N(5800), "L80")
\* as Liner7 in od only, and without a grade
Liner7b == Drop(Pipe(N(7), Num(25, 4), Num(3, 8), N(900), N(5500), N(5200), ""), {"grade"})
Liner10 == Pipe(N(10), N(9), Num(1, 2), N(1500), N(6000), N(5800), "L80")
LinerNeg7 == Pipe(N(-7), N(6), Num(1, 2), N(1500), N(6000), N(5800), "L80")
DrillPipeA == Pipe(N(5), Num(17, 4), Num(3, 8), N(4500), N(4500), N(4400), "S135")
DrillPipeB == Pipe(Num(7, 2), N(3), Num(1, 4), N(500), N(5000), N(4800), "G105")

Hole(openHoleId, linerOverlap, shoeTrackLength) ==
    [openHoleId |-> openHoleId, linerOverlap |-> linerOverlap,
     shoeTrackLength |-> shoeTrackLength]

HoleWide == Hole(N(12), N(100), N(50))
HoleStd == Hole(Num(17, 2), N(300), N(200))
HoleTight == Hole(N(7), N(100), N(50))
HoleNeg == Hole(N(-10), N(100), N(50))

Liners == {Liner7, Liner10, LinerNeg7}
Holes == {HoleWide, HoleStd, HoleTight, HoleNeg}

BaseBody ==
    [casing |-> CasingA, liner |-> Liner7, dp1 |-> DrillPipeA, dp2 |-> DrillPipeB,
     mud |-> [ppg |-> Num(25, 2)], holeOverlap |-> HoleWide]

\* the geometry varied, everything supplied
GeometryBodies == {[BaseBody EXCEPT !.liner = l, !.holeOverlap = h] : l \in Liners, h \in Holes}

\* sections omitted, null or incomplete
OmitBodies ==
    {Drop(BaseBody, S) : S \in {{"dp2"}, {"mud"}, {"holeOverlap"}, {"mud", "holeOverlap"},
                                {"dp2", "mud", "holeOverlap"}, {"casing"}, {"liner"},
                                {"dp1"}}}
    \cup {[BaseBody EXCEPT !.dp2 = ZeroSection], [BaseBody EXCEPT !.dp2 = None],
          [BaseBody EXCEPT !.mud = EmptyDict], [BaseBody EXCEPT !.holeOverlap = EmptyDict],
          [BaseBody EXCEPT !.casing = Drop(CasingA, {"od"})],
          [BaseBody EXCEPT !.mud = [ppg |-> None]]}

Bodies == GeometryBodies \cup OmitBodies

\* the optional parts of a payload: keys, and sub-fields as <<key, sub-field>>
OptionalKeys == {"dp2", "mud", "holeOverlap"}
OptionalSubFields ==
    {<<"mud", "ppg">>, <<"holeOverlap", "openHoleId">>, <<"holeOverlap", "linerOverlap">>,
     <<"holeOverlap", "shoeTrackLength">>}

DefaultOfKey(k) ==
    CASE k = "dp2" -> ZeroSection
      [] k = "mud" -> [ppg |-> N(13)]
      [] k = "holeOverlap" -> Hole(Num(17, 2), N(300), N(200))

DefaultOfSubField(ks) == DefaultOfKey(ks[1])[ks[2]]

KeyAbsent(p, k) == ~Has(p, k)
SubFieldAbsent(p, ks) == Has(p, ks[1]) /\ p[ks[1]] # None /\ ~Has(p[ks[1]], ks[2])

FillKey(p, k) == Extend(p, [j \in {k} |-> DefaultOfKey(k)])
FillSubField(p, ks) ==
    [p EXCEPT ![ks[1]] = Extend(p[ks[1]], [j \in {ks[2]} |-> DefaultOfSubField(ks)])]

\* payloads with optional parts left out
SparsePayloads ==
    {Drop(BaseBody, S) : S \in {{"dp2"}, {"mud"}, {"holeOverlap"},
                                {"dp2", "mud", "holeOverlap"}}}
    \cup {[BaseBody EXCEPT ![ks[1]] = Drop(BaseBody[ks[1]], {ks[2]})] : ks \in OptionalSubFields}

\* the same payloads with one absent part filled in with its default
FilledPayloads ==
    UNION {{FillKey(p, k) : k \in {j \in OptionalKeys : KeyAbsent(p, j)}}
             \cup {FillSubField(p, ks) : ks \in {js \in OptionalSubFields : SubFieldAbsent(p, js)}}
           : p \in SparsePayloads}

\* the pipe sections varied, liner.od kept
SectionPayloads ==
    {[BaseBody EXCEPT !.casing = CasingB], [BaseBody EXCEPT !.dp1 = DrillPipeB],
     [BaseBody EXCEPT !.liner = Liner7b], [BaseBody EXCEPT !.liner = Liner10],
     [BaseBody EXCEPT !.liner = Liner10, !.holeOverlap = HoleNeg]}

\* payloads the engine cannot take
BrokenPayloads ==
    {Drop(BaseBody, {"casing"}), Drop(BaseBody, {"dp1"}),
     [BaseBody EXCEPT !.liner = Drop(Liner7, {"od"})],
     [BaseBody EXCEPT !.dp1 = Extend(DrillPipeA, [connection |-> "NC50"])],
     [BaseBody EXCEPT !.dp2 = None],
     [BaseBody EXCEPT !.mud = None],
     [BaseBody EXCEPT !.mud = [ppg |-> None]],
     [BaseBody EXCEPT !.holeOverlap = [HoleWide EXCEPT !.shoeTrackLength = None]]}

Payloads == {BaseBody} \cup SparsePayloads \cup FilledPayloads \cup SectionPayloads
                \cup BrokenPayloads

\* the find_tvd argument: absent (None) or a depth lookup
DepthLookup == [callable |-> "find_tvd"]
DirectCalls ==
    {[via |-> "direct", payload |-> p, find_tvd |-> None] : p \in Payloads}
    \cup {[via |-> "direct", payload |-> p, find_tvd |-> DepthLookup] :
            p \in {BaseBody, Drop(BaseBody, {"dp2", "mud", "holeOverlap"})}}

Callers == {"c1", "c2"}
MaxCalls == 2

NoCall == [via |-> "none"]
NoFrame == EmptyDict
NoResp == EmptyDict

(***************************************************************************)
(* The state machine.  Each caller is idle, in the handler, at a statement *)
(* of Engine.calculate, or done with its response; frame[c] holds the      *)
(* locals of caller c's invocation.                                        *)
(***************************************************************************)
Init ==
    /\ pc = [c \in Callers |-> "idle"]
    /\ call = [c \in Callers |-> NoCall]
    /\ frame = [c \in Callers |-> NoFrame]
    /\ resp = [c \in Callers |-> NoResp]
    /\ calls = 0

\* locals kept on the shared ENGINE: an invocation reads those of another
\* invocation that is at the same statement
SharedLocals(c) ==
    LET others == {d \in Callers \ {c} : pc[d] = pc[c]}
    IN  IF pc[c] \in {"L20", "L24", "L30", "L31", "L37"} /\ others # {}
        THEN frame[CHOOSE d \in others : TRUE]
        ELSE frame[c]

\* the locals an invocation reads: its own (Engine has no attributes, ENGINE is
\* shared but holds nothing)
Locals(c) == frame[c]

\* POST /calculate: pydantic validates the body against CalcRequest before the
\* handler runs; an invalid body is answered 422
Post(c, body) ==
    /\ pc[c] = "idle"
    /\ calls < MaxCalls
    /\ calls' = calls + 1
    /\ call' = [call EXCEPT ![c] = [via |-> "http", body |-> body]]
    /\ LET req == CalcRequest(body)
       IN  IF req.ok
           THEN /\ pc' = [pc EXCEPT ![c] = "handler"]
                /\ frame' = [frame EXCEPT ![c] = [req |-> req.val]]
                /\ UNCHANGED resp
           ELSE /\ pc' = [pc EXCEPT ![c] = "done"]
                /\ resp' = [resp EXCEPT ![c] = [status |-> 422, detail |-> req.exc.msg]]
                /\ UNCHANGED frame

\* main.py line 41: ENGINE.calculate(req.model_dump(by_alias=True))
HandlerCall(c) ==
    /\ pc[c] = "handler"
    /\ pc' = [pc EXCEPT ![c] = "L20"]
    /\ frame' = [frame EXCEPT ![c] = EnterCalculate(model_dump(Locals(c).req), None)]
    /\ UNCHANGED <<call, resp, calls>>

\* a caller of the engine other than the handler
DirectCall(c, d) ==
    /\ pc[c] = "idle"
    /\ calls < MaxCalls
    /\ calls' = calls + 1
    /\ call' = [call EXCEPT ![c] = d]
    /\ pc' = [pc EXCEPT ![c] = "L20"]
    /\ frame' = [frame EXCEPT ![c] = EnterCalculate(d.payload, d.find_tvd)]
    /\ UNCHANGED resp

\* the statements of Engine.calculate at `line`: on to `next`, or the exception
Statement(c, line, r, next) ==
    /\ pc[c] = line
    /\ IF r.ok
       THEN /\ pc' = [pc EXCEPT ![c] = next]
            /\ frame' = [frame EXCEPT ![c] = r.val]
       ELSE /\ pc' = [pc EXCEPT ![c] = "raised"]
            /\ frame' = [frame EXCEPT ![c] = Extend(frame[c], [exc |-> r.exc])]
    /\ UNCHANGED <<call, resp, calls>>

BuildSections(c) == Statement(c, "L20", Lines20to23(Locals(c)), "L24")
ReadMudAndHole(c) == Statement(c, "L24", Lines24to25(Locals(c)), "L30")
AnnulusArea(c) == Statement(c, "L30", Line30(Locals(c)), "L31")
CementVolume(c) == Statement(c, "L31", Lines31to35(Locals(c)), "L37")
ReturnResult(c) == Statement(c, "L37", Lines37to41(Locals(c)), "returned")

\* main.py line 42: return result, serialised through CalcResponse
HandlerReturn(c) ==
    /\ pc[c] = "returned"
    /\ call[c].via = "http"
    /\ pc' = [pc EXCEPT ![c] = "done"]
    /\ resp' = [resp EXCEPT ![c] = [status |-> 200, body |-> CalcResponse(frame[c].ret)]]
    /\ UNCHANGED <<call, frame, calls>>

\* main.py lines 43-44: except Exception -> HTTPException(400, str(e)); an
\* exception the clause does not catch leaves the handler (500)
HandlerExcept(c) ==
    /\ pc[c] = "raised"
    /\ call[c].via = "http"
    /\ pc' = [pc EXCEPT ![c] = "done"]
    /\ resp' = [resp EXCEPT ![c] =
                  IF Catches(frame[c].exc)
                  THEN [status |-> 400, detail |-> Str(frame[c].exc)]
                  ELSE [status |-> 500, detail |-> "Internal Server Error"]]
    /\ UNCHANGED <<call, frame, calls>>

\* the direct caller gets the returned dict
DirectReturn(c) ==
    /\ pc[c] = "returned"
    /\ call[c].via = "direct"
    /\ pc' = [pc EXCEPT ![c] = "done"]
    /\ resp' = [resp EXCEPT ![c] = [returned |-> frame[c].ret]]
    /\ UNCHANGED <<call, frame, calls>>

\* the direct caller gets the exception
DirectRaise(c) ==
    /\ pc[c] = "raised"
    /\ call[c].via = "direct"
    /\ pc' = [pc EXCEPT ![c] = "done"]
    /\ resp' = [resp EXCEPT ![c] = [raised |-> frame[c].exc]]
    /\ UNCHANGED <<call, frame, calls>>

\* GET /health (main.py lines 46-48)
Health(c) ==
    /\ pc[c] = "idle"
    /\ calls < MaxCalls
    /\ calls' = calls + 1
    /\ call' = [call EXCEPT ![c] = [via |-> "health"]]
    /\ pc' = [pc EXCEPT ![c] = "done"]
    /\ resp' = [resp EXCEPT ![c] = [status |-> 200, body |-> [status |-> "ok"]]]
    /\ UNCHANGED frame

\* the caller takes its response; the invocation's locals are discarded
Finish(c) ==
    /\ pc[c] = "done"
    /\ pc' = [pc EXCEPT ![c] = "idle"]
    /\ call' = [call EXCEPT ![c] = NoCall]
    /\ frame' = [frame EXCEPT ![c] = NoFrame]
    /\ resp' = [resp EXCEPT ![c] = NoResp]
    /\ UNCHANGED calls

Next ==
    \E c \in Callers :
        \/ \E body \in Bodies : Post(c, body)
        \/ HandlerCall(c)
        \/ \E d \in DirectCalls : DirectCall(c, d)
        \/ BuildSections(c)
        \/ ReadMudAndHole(c)
        \/ AnnulusArea(c)
        \/ CementVolume(c)
        \/ ReturnResult(c)
        \/ HandlerReturn(c)
        \/ HandlerExcept(c)
        \/ DirectReturn(c)
        \/ DirectRaise(c)
        \/ Health(c)
        \/ Finish(c)

Spec == Init /\ [][Next]_vars

(***************************************************************************)
(* Engine.calculate run alone, from entry to return or raise               *)
(***************************************************************************)
Then(r, op(_)) == IF r.ok THEN op(r.val) ELSE r

Calculate(payload, find_tvd) ==
    LET r == Then(Then(Then(Then(Lines20to23(EnterCalculate(payload, find_tvd)),
                 Lines24to25), Line30), Lines31to35), Lines37to41)
    IN  IF r.ok THEN [returned |-> r.val.ret] ELSE [raised |-> r.exc]

(***************************************************************************)
(* Vocabulary of the properties                                            *)
(***************************************************************************)
\* Engine.calculate has returned or raised for caller c
Finished(c) == pc[c] \in {"returned", "raised", "done"} /\ Has(frame[c], "payload")

\* what the invocation of caller c returned or raised
EngineOutcome(c) ==
    IF Has(frame[c], "ret") THEN [returned |-> frame[c].ret] ELSE [raised |-> frame[c].exc]

\* the payload caller c passed to Engine.calculate
InvokedPayload(c) ==
    IF call[c].via = "direct" THEN call[c].payload
    ELSE model_dump(CalcRequest(call[c].body).val)

WellFormedSection(v) ==
    /\ v # None
    /\ PipeRequired \subseteq DOMAIN v
    /\ DOMAIN v \subseteq PipeFields
    /\ \A k \in PipeRequired : IsNumber(v[k])

SuppliesSections(p) ==
    \A k \in {"casing", "liner", "dp1"} : Has(p, k) /\ WellFormedSection(p[k])

\* dp2 left out, or a well-formed section
Dp2Usable(p) == Has(p, "dp2") => WellFormedSection(p.dp2)

SuppliesSubField(p, ks) ==
    /\ Has(p, ks[1])
    /\ p[ks[1]] # None
    /\ Has(p[ks[1]], ks[2])
    /\ IsNumber(p[ks[1]][ks[2]])

SuppliesScalars(p) == \A ks \in OptionalSubFields : SuppliesSubField(p, ks)

\* every scalar is supplied as a number or left to its default
ScalarsUsable(p) ==
    \A ks \in OptionalSubFields :
        \/ KeyAbsent(p, ks[1])
        \/ SubFieldAbsent(p, ks)
        \/ SuppliesSubField(p, ks)

\* the value of a scalar after default-filling
Effective(p, ks) == Get(Get(p, ks[1], EmptyDict), ks[2], DefaultOfSubField(ks))

AbsNum(a) == [a EXCEPT !.n = Abs(a.n)]
Ge(a, b) == ~Gt(b, a)

\* area(d) = pi * (d/12)^2 / 4 = pi * d^2 / 576
SpecArea(d) == Norm(d.n * d.n, d.d * d.d * 576, 1)

SpecAnnulus(openHoleId, od) ==
    LET x == Sub(SpecArea(openHoleId), SpecArea(od))
    IN  IF x.n >= 0 THEN x ELSE Zero

SpecVolume(area, linerOverlap, shoeTrackLength) ==
    Mul(Mul(area, Add(linerOverlap, shoeTrackLength)), Num(1781076, 10000000))

SpecResult(openHoleId, od, linerOverlap, shoeTrackLength, ppg) ==
    [annulusAreaFt2 |-> SpecAnnulus(openHoleId, od),
     cementVolume |-> SpecVolume(SpecAnnulus(openHoleId, od), linerOverlap, shoeTrackLength),
     mudPPG |-> ppg]

SuppliesAllButDp2(body) ==
    /\ PipeField(body, "casing").ok
    /\ PipeField(body, "liner").ok
    /\ PipeField(body, "dp1").ok
    /\ MudField(body).ok
    /\ HoleOverlapField(body).ok

\* C2: a valid request that omits dp2 is accepted at /calculate, an all-zero
\* PipeSection is substituted for dp2, and the response is the successful
\* three-field result of the same request with dp2 given as the all-zero section.
C2_OmittedDp2Succeeds ==
    \A c \in Callers :
        (/\ pc[c] = "done"
         /\ call[c].via = "http"
         /\ SuppliesAllButDp2(call[c].body)
         /\ ~Has(call[c].body, "dp2"))
        => /\ resp[c].status = 200
           /\ frame[c].dp2 = ZeroSection
           /\ [returned |-> resp[c].body] =
                Calculate(model_dump(CalcRequest(FillKey(call[c].body, "dp2")).val), None)

(***************************************************************************)
(* C3                                                                      *)
(***************************************************************************)
\* C3: a request that supplies casing, liner and dp1 and omits mud and/or
\* holeOverlap is accepted at /calculate (no validation fault) and answered
\* with the result computed with mudPPG = 13.0, openHoleId = 8.5,
\* linerOverlap = 300 and shoeTrackLength = 200 for the omitted parts.
C3_MudAndHoleOverlapOptional ==
    \A c \in Callers :
        LET body == call[c].body
            filled == Extend([mud |-> DefaultOfKey("mud"),
                              holeOverlap |-> DefaultOfKey("holeOverlap")], body)
        IN  (/\ pc[c] = "done"
             /\ call[c].via = "http"
             /\ PipeField(body, "casing").ok
             /\ PipeField(body, "liner").ok
             /\ PipeField(body, "dp1").ok
             /\ Has(body, "dp2") /\ PipeField(body, "dp2").ok
             /\ (~Has(body, "mud") \/ ~Has(body, "holeOverlap")))
            => /\ resp[c].status = 200
               /\ resp[c].body =
                    SpecResult(filled.holeOverlap.openHoleId, filled.liner.od,
                               filled.holeOverlap.linerOverlap,
                               filled.holeOverlap.shoeTrackLength, filled.mud.ppg)

(***************************************************************************)
(* C4                                                                      *)
(***************************************************************************)
\* C4: Engine.calculate applies each default independently: for every payload
\* with well-formed casing, liner and dp1, when dp2, mud, holeOverlap or one of
\* mud.ppg, openHoleId, linerOverlap, shoeTrackLength is absent, the outcome is
\* that of the same payload with the value filled in as the all-zero section,
\* 13.0, 8.5, 300 and 200; with mud, holeOverlap and dp2 absent together,
\* mudPPG = 13.0 and the volume is that of openHoleId = 8.5 over 500 ft.
C4_Formula ==
    /\ \A c, d \in Callers :
         LET p == frame[c].payload
             q == frame[d].payload
         IN  (Finished(c) /\ Finished(d) /\ SuppliesSections(p))
             => /\ \A k \in OptionalKeys :
                     (KeyAbsent(p, k) /\ q = FillKey(p, k))
                     => EngineOutcome(c) = EngineOutcome(d)
                /\ \A ks \in OptionalSubFields :
                     (SubFieldAbsent(p, ks) /\ q = FillSubField(p, ks))
                     => EngineOutcome(c) = EngineOutcome(d)
    /\ \A c \in Callers :
         LET p == frame[c].payload
         IN  (Finished(c) /\ SuppliesSections(p) /\ \A k \in OptionalKeys : KeyAbsent(p, k))
             => EngineOutcome(c) =
                  [returned |-> SpecResult(Num(17, 2), p.liner.od, N(300), N(200), N(13))]

\* two calls have finished, one lacking a part that the other has filled in,
\* among them a payload that lacks mud, holeOverlap and dp2 together
C4_Witness ==
    \E c, d \in Callers :
        /\ Finished(c) /\ Finished(d)
        /\ SuppliesSections(frame[c].payload)
        /\ \A k \in OptionalKeys : KeyAbsent(frame[c].payload, k)
        /\ frame[d].payload = FillKey(frame[c].payload, "holeOverlap")
        /\ Has(frame[c], "ret") /\ Has(frame[d], "ret")

\* a call has finished with a sub-field absent, another with it filled in
C4_WitnessSubField ==
    \E c, d \in Callers : \E ks \in OptionalSubFields :
        /\ Finished(c) /\ Finished(d)
        /\ SubFieldAbsent(frame[c].payload, ks)
        /\ frame[d].payload = FillSubField(frame[c].payload, ks)

(***************************************************************************)
(* C5                                                                      *)
(***************************************************************************)
\* the call gets as far as the formula: sections well-formed, scalars usable
Computable(p) == SuppliesSections(p) /\ Dp2Usable(p) /\ ScalarsUsable(p)

ClampedToZero(c) ==
    /\ Has(frame[c], "ret")
    /\ frame[c].ret.annulusAreaFt2 = Zero
    /\ frame[c].ret.cementVolume = Zero

\* C5 as stated: for every well-formed payload with liner.od >= openHoleId, whatever the
\* signs of the two diameters, Engine.calculate raises no error and returns
\* annulusAreaFt2 = 0 and cementVolume = 0.
C5_AsStated ==
    \A c \in Callers :
        LET p == frame[c].payload
        IN  (/\ Finished(c)
             /\ Computable(p)
             /\ Ge(p.liner.od, Effective(p, <<"holeOverlap", "openHoleId">>)))
            => ClampedToZero(c)

\* C5 amended: for every well-formed payload with |liner.od| >= |openHoleId|
\* (so for every liner.od >= openHoleId >= 0), Engine.calculate raises no error
\* and returns annulusAreaFt2 = 0 and cementVolume = 0.
C5_Formula ==
    \A c \in Callers :
        LET p == frame[c].payload
        IN  (/\ Finished(c)
             /\ Computable(p)
             /\ Ge(AbsNum(p.liner.od),
                   AbsNum(Effective(p, <<"holeOverlap", "openHoleId">>))))
            => ClampedToZero(c)

\* a call with liner.od strictly above a positive openHoleId has finished
C5_Witness ==
    \E c \in Callers :
        LET p == frame[c].payload
            oh == Effective(p, <<"holeOverlap", "openHoleId">>)
        IN  /\ Finished(c)
            /\ Computable(p)
            /\ Gt(oh, Zero)
            /\ Gt(p.liner.od, oh)
            /\ ClampedToZero(c)

(***************************************************************************)
(* C6                                                                      *)
(***************************************************************************)
\* C6: every result returned by Engine.calculate has annulusAreaFt2 >= 0,
\* also when liner.od exceeds openHoleId.
C6_Formula ==
    \A c \in Callers :
        /\ Has(frame[c], "annulus_area") => frame[c].annulus_area.n >= 0
        /\ Has(frame[c], "ret") => frame[c].ret.annulusAreaFt2.n >= 0
        /\ (Has(resp[c], "returned") => resp[c].returned.annulusAreaFt2.n >= 0)
        /\ (Has(resp[c], "body") /\ call[c].via = "http")
              => resp[c].body.annulusAreaFt2.n >= 0

\* a result has been returned for a liner whose area exceeds the hole's
C6_Witness ==
    \E c \in Callers :
        /\ Has(resp[c], "returned") \/ (Has(resp[c], "body") /\ call[c].via = "http")
        /\ Has(frame[c], "ret")
        /\ Gt(area_ft2(frame[c].liner.od), area_ft2(frame[c].open_hole_id))

(***************************************************************************)
(* C7                                                                      *)
(***************************************************************************)
MissingRequiredSection(body) ==
    \E k \in {"casing", "liner", "dp1"} :
        \/ ~Has(body, k)
        \/ body[k] = None
        \/ ~(PipeRequired \subseteq DOMAIN body[k])

CompleteSection(v) ==
    /\ v # None
    /\ PipeRequired \subseteq DOMAIN v
    /\ \A k \in PipeRequired : IsNumber(v[k])

\* C7: on the /calculate path a request missing a required section (casing,
\* liner or dp1) ends in a client-fault response without Engine.calculate being
\* invoked, and every payload the boundary hands to the engine has casing,
\* liner and dp1 present and complete.
C7_Formula ==
    \A c \in Callers :
        call[c].via = "http"
        => /\ MissingRequiredSection(call[c].body)
                => /\ pc[c] = "done"
                   /\ frame[c] = NoFrame
                   /\ resp[c].status \in 400..499
           /\ Has(frame[c], "payload")
                => \A k \in {"casing", "liner", "dp1"} :
                      Has(frame[c].payload, k) /\ CompleteSection(frame[c].payload[k])

\* a request without one of the required sections has been answered
C7_Witness ==
    \E c \in Callers :
        /\ call[c].via = "http"
        /\ MissingRequiredSection(call[c].body)
        /\ pc[c] = "done"
        /\ resp[c].status = 422

(***************************************************************************)
(* C8                                                                      *)
(***************************************************************************)
\* C8: every exception raised while the /calculate handler runs the engine
\* becomes an HTTP 400 response carrying the exception's message; none leaves
\* the handler unhandled, and every handled request ends in exactly one of
\* the three-field result or an error response.
C8_Formula ==
    \A c \in Callers :
        (call[c].via = "http" /\ pc[c] = "done")
        => /\ resp[c].status \in {200, 400, 422}
           /\ resp[c].status = 200
                => /\ DOMAIN resp[c] = {"status", "body"}
                   /\ DOMAIN resp[c].body = {"cementVolume", "mudPPG", "annulusAreaFt2"}
                   /\ Has(frame[c], "ret")
           /\ resp[c].status # 200 => DOMAIN resp[c] = {"status", "detail"}
           /\ Has(frame[c], "exc")
                => /\ resp[c].status = 400
                   /\ resp[c].detail = Str(frame[c].exc)
           /\ Has(frame[c], "ret") => resp[c].status = 200

\* the engine has raised under the handler and the request has been answered
C8_Witness ==
    \E c \in Callers :
        /\ call[c].via = "http"
        /\ pc[c] = "done"
        /\ Has(frame[c], "exc")
        /\ resp[c].status = 400

(***************************************************************************)
(* C9                                                                      *)
(***************************************************************************)
\* C9: the shared ENGINE carries no state between invocations: under every
\* interleaving and sequence of calls, failing ones included, a call's outcome
\* is the function of its own payload that Engine.calculate computes when run
\* alone, and two calls with identical payloads have identical outcomes.
C9_Formula ==
    /\ \A c \in Callers :
         Finished(c)
         => EngineOutcome(c) = Calculate(InvokedPayload(c), frame[c].find_tvd)
    /\ \A c, d \in Callers :
         (Finished(c) /\ Finished(d) /\ InvokedPayload(c) = InvokedPayload(d))
         => EngineOutcome(c) = EngineOutcome(d)

\* two callers, one through the handler and one direct, have finished calls
\* with identical payloads
C9_Witness ==
    \E c, d \in Callers :
        /\ c # d
        /\ Finished(c) /\ Finished(d)
        /\ call[c].via = "http" /\ call[d].via = "direct"
        /\ InvokedPayload(c) = InvokedPayload(d)

(***************************************************************************)
(* C10                                                                     *)
(***************************************************************************)
Sections == {"casing", "liner", "dp1", "dp2"}

SectionsWellFormed(p) == \A k \in Sections : Has(p, k) /\ WellFormedSection(p[k])

\* C10: two payloads whose casing, liner, dp1 and dp2 are well-formed and that
\* agree on liner.od, mud and holeOverlap get identical outcomes, whatever the
\* other section values; find_tvd is never invoked.
C10_Formula ==
    /\ \A c, d \in Callers :
         LET p == frame[c].payload
             q == frame[d].payload
         IN  (/\ Finished(c) /\ Finished(d)
              /\ SectionsWellFormed(p) /\ SectionsWellFormed(q)
              /\ p.liner.od = q.liner.od
              /\ Drop(p, Sections) = Drop(q, Sections))
             => EngineOutcome(c) = EngineOutcome(d)
    /\ \A c \in Callers :
         Has(frame[c], "find_tvd_calls") => frame[c].find_tvd_calls = 0

\* two calls have returned whose payloads differ in the liner's other fields
\* only, one of them given a find_tvd
C10_Witness ==
    \E c, d \in Callers :
        LET p == frame[c].payload
            q == frame[d].payload
        IN  /\ Finished(c) /\ Finished(d)
            /\ SectionsWellFormed(p) /\ SectionsWellFormed(q)
            /\ p.liner.od = q.liner.od
            /\ p.liner.id # q.liner.id
            /\ Drop(p, Sections) = Drop(q, Sections)
            /\ frame[c].find_tvd # None
            /\ Has(frame[c], "ret") /\ Has(frame[d], "ret")

====
